---- MODULE Spec2Model ----
(***************************************************************************)
(* A model of the dev-learning repository.                                 *)
(*                                                                         *)
(*   Spec        the three Express JWT apps: src/jwt.js (token in the      *)
(*               Authorization header), src/unnamed/part_000 (access +     *)
(*               refresh tokens) and src/unnamed/part_001 (token in a      *)
(*               cookie).                                                  *)
(*   SpecTopic   the topic-exchange example of                             *)
(*               src/rabbitmq/5-Routing-Topic-Exchange.md.                 *)
(*   SpecFanout  the publish/subscribe example of src/unnamed/part_002.    *)
(*   SpecWork    the competing consumers of                                *)
(*               src/rabbitmq/2-Competiting-consumers.md.                  *)
(*                                                                         *)
(* The RabbitMQ broker itself is not part of the repository; what it does  *)
(* with the scripts' calls is modelled from the repository's description   *)
(* of it, next to the scripts.                                             *)
(*                                                                         *)
(* Time is in seconds, as in the iat and exp claims of jsonwebtoken.       *)
(***************************************************************************)
EXTENDS Integers, Sequences, FiniteSets, TLC

\* ------------------------------------------------------------------ bounds
\* How many times one behaviour may issue tokens (a successful login or refresh).
MaxIssues == 3

\* ------------------------------------------------- constants of the source
\* expiresIn: '1h' of src/jwt.js and of the cookie app.
TokenTTL == 3600
\* expiresIn: '15m' of the access + refresh app.
AccessTTL == 900
\* expiresIn: '7d' of the access + refresh app.
RefreshTTL == 604800

JWT_SECRET == "vinay_jain//jnf"
JWT_ACCESS_SECRET == "access_secret_vinay"
JWT_REFRESH_SECRET == "refresh_secret_vinay"

\* The three apps.
AppJwt == "jwt.js"
AppRefresh == "accessRefresh"
AppCookie == "cookie"
Apps == {AppJwt, AppRefresh, AppCookie}

\* The in-memory user table; jwt.js and the cookie app call the role field
\* role1, the access + refresh app calls it role.
users ==
  { [id |-> 1, username |-> "user1", password |-> "pass1", role |-> "admin"],
    [id |-> 2, username |-> "user2", password |-> "pass2", role |-> "user"] }

VARIABLES
  app,            \* which of the three apps this server runs
  now,            \* the server clock, seconds
  issues,         \* successful logins and refreshes so far
  refreshTokens,  \* the refreshTokens array of the access + refresh app
  issued,         \* every token a response has handed to a client
  loggedOut,      \* the server's refresh tokens POST /logout has been called with
  req,            \* the last request
  res             \* the response to it

jwtVars == <<app, now, issues, refreshTokens, issued, loggedOut, req, res>>

VARIABLES
  tPc,            \* topic example: where each consumer script is
  tQueue,         \* topic example: the messages in each consumer's queue
  tSent           \* topic example: the routing keys the producer has logged as sent

topicVars == <<tPc, tQueue, tSent>>

VARIABLES
  fPc,            \* pub/sub example: where each consumer script is
  fQueue,         \* pub/sub example: the messages in each consumer's queue
  fSent           \* pub/sub example: the routing keys the producer has logged as sent

fanoutVars == <<fPc, fQueue, fSent>>

VARIABLES
  wPc,            \* work queue: where each consumer script is
  wQueue,         \* work queue: the messages ready in the letterbox queue
  wUnacked,       \* work queue: each consumer's delivered, unacknowledged messages
  wAcked,         \* work queue: the messages each consumer has acknowledged
  messageId       \* work queue: the producer's messageId

workVars == <<wPc, wQueue, wUnacked, wAcked, messageId>>

VARIABLES
  dPc,            \* direct example: where each consumer script is
  dBindings,      \* direct example: the binding keys of each consumer's queue
  dQueue,         \* direct example: the messages in each consumer's queue
  dSent           \* direct example: the routing keys the producer has logged as sent

directVars == <<dPc, dBindings, dQueue, dSent>>

vars == <<jwtVars, topicVars, fanoutVars, workVars, directVars>>

\* ------------------------------------------------------------ JS strings
\* A space-free string: the empty string, a text that is no JWT, or a JWT,
\* which is determined by its payload, its issue time and the signing secret
\* (HMAC is deterministic: the same payload signed in the same second with
\* the same secret is the same string).  Undefined is JavaScript's undefined.
Undefined == [kind |-> "undefined", text |-> "", secret |-> "", id |-> 0, role |-> "", iat |-> 0, exp |-> 0]
EmptyStr == [kind |-> "empty", text |-> "", secret |-> "", id |-> 0, role |-> "", iat |-> 0, exp |-> 0]
Text(s) == [kind |-> "text", text |-> s, secret |-> "", id |-> 0, role |-> "", iat |-> 0, exp |-> 0]

\* JavaScript truthiness of a string-or-undefined.
Truthy(w) == w.kind \notin {"undefined", "empty"}

\* xs[i] of a JavaScript array (0-based), undefined past the end.
At(xs, i) == IF i + 1 <= Len(xs) THEN xs[i + 1] ELSE Undefined

\* A header value is a sequence of space-free strings and single spaces SP.
SP == [kind |-> "space", text |-> " ", secret |-> "", id |-> 0, role |-> "", iat |-> 0, exp |-> 0]

\* String.split(' '): the pieces between the spaces, an empty string where
\* two spaces meet or the value begins or ends with one; ''.split(' ') is [''].
RECURSIVE SplitFrom(_, _)
SplitFrom(value, piece) ==
  IF value = <<>> THEN <<piece>>
  ELSE IF Head(value) = SP THEN <<piece>> \o SplitFrom(Tail(value), EmptyStr)
  ELSE SplitFrom(Tail(value), Head(value))
Split(value) == SplitFrom(value, EmptyStr)

\* The role of a payload that has no role field: reading it gives undefined.
UndefinedRole == "undefined"

\* jwt.sign(payload, secret, {expiresIn}): iat is the clock, exp = iat + ttl.
\* A payload field that is undefined is left out of the token.
Sign(id, role, secret, ttl, t) ==
  [kind |-> "jwt", text |-> "", secret |-> secret, id |-> id, role |-> role, iat |-> t, exp |-> t + ttl]

\* jwt.verify(token, secret) succeeds: a well-formed token, signed with the
\* secret, with clockTimestamp < exp.
VerifyOk(tok, secret, t) ==
  tok.kind = "jwt" /\ tok.secret = secret /\ t < tok.exp

NoUser == [present |-> FALSE, id |-> 0, role |-> "", iat |-> 0, exp |-> 0]
\* The decoded payload jwt.verify returns.
Decoded(tok) == [present |-> TRUE, id |-> tok.id, role |-> tok.role, iat |-> tok.iat, exp |-> tok.exp]

\* ------------------------------------------------------- requests, responses
NoHeader == [present |-> FALSE, value |-> <<>>]
Header(value) == [present |-> TRUE, value |-> value]
\* !authHeader: the header is absent or its value is the empty string.
HeaderTruthy(hdr) == hdr.present /\ hdr.value # <<>>

NoBody == [username |-> "", password |-> ""]
Request(route, hdr, cookie, body, t) ==
  [route |-> route, hdr |-> hdr, cookie |-> cookie, body |-> body, at |-> t]

\* A response: the status and message sent, req.user as the middleware left
\* it, whether the route handler ran, the token of the JSON body and the
\* cookie set (undefined when there is none).
Response(status, message, user, handler, token, cookie) ==
  [status |-> status, message |-> message, user |-> user, handler |-> handler,
   token |-> token, cookie |-> cookie]

\* What a middleware decides: next() with req.user set, or a response.
Pass(user) == [next |-> TRUE, status |-> 0, message |-> "", user |-> user]
Reject(status, message) == [next |-> FALSE, status |-> status, message |-> message, user |-> NoUser]

\* ------------------------------------------------------------- middlewares
\* The mutant of authenticateJWT that decodes the token without verifying it
\* (jwt.decode in place of jwt.verify).
authenticateJWTDecodeOnly(hdr, t) ==
  IF ~HeaderTruthy(hdr) THEN Reject(401, "Authorization header missing")
  ELSE LET token == At(Split(hdr.value), 1) IN
       IF ~Truthy(token) THEN Reject(401, "Token missing")
       ELSE IF token.kind = "jwt" THEN Pass(Decoded(token))
       ELSE Reject(403, "Invalid or expired token")

\* src/jwt.js authenticateJWT.
authenticateJWT(hdr, t) ==
  IF ~HeaderTruthy(hdr) THEN Reject(401, "Authorization header missing")
  ELSE LET token == At(Split(hdr.value), 1) IN
       IF ~Truthy(token) THEN Reject(401, "Token missing")
       ELSE IF VerifyOk(token, JWT_SECRET, t) THEN Pass(Decoded(token))
       ELSE Reject(403, "Invalid or expired token")

\* The mutant of authenticateAccessToken that checks the signature and not
\* the expiry (jwt.verify with ignoreExpiration).
authenticateAccessTokenNoExpiry(hdr, t) ==
  IF ~HeaderTruthy(hdr) THEN Reject(401, "Missing Authorization header")
  ELSE LET token == At(Split(hdr.value), 1) IN
       IF ~Truthy(token) THEN Reject(401, "Token missing")
       ELSE IF ~(token.kind = "jwt" /\ token.secret = JWT_ACCESS_SECRET)
       THEN Reject(403, "Invalid or expired token")
       ELSE Pass(Decoded(token))

\* The access + refresh app's authenticateAccessToken.
authenticateAccessToken(hdr, t) ==
  IF ~HeaderTruthy(hdr) THEN Reject(401, "Missing Authorization header")
  ELSE LET token == At(Split(hdr.value), 1) IN
       IF ~Truthy(token) THEN Reject(401, "Token missing")
       ELSE IF ~VerifyOk(token, JWT_ACCESS_SECRET, t) THEN Reject(403, "Invalid or expired token")
       ELSE Pass(Decoded(token))

\* The cookie app's authenticateJWT, which reads req.cookies.token.
authenticateJWTCookie(token, t) ==
  IF ~Truthy(token) THEN Reject(401, "Token missing (not logged in)")
  ELSE IF VerifyOk(token, JWT_SECRET, t) THEN Pass(Decoded(token))
  ELSE Reject(403, "Invalid or expired token")

\* The middleware each app puts before GET /profile and GET /admin.
Authenticate(a, hdr, cookie, t) ==
  IF a = AppJwt THEN authenticateJWT(hdr, t)
  ELSE IF a = AppRefresh THEN authenticateAccessToken(hdr, t)
  ELSE authenticateJWTCookie(cookie, t)

\* ---------------------------------------------------------------- inputs
Bearer == Text("Bearer")
\* A well-formed token signed with a secret that is none of the servers'.
Forged ==
  [kind |-> "jwt", text |-> "", secret |-> "not_the_secret", id |-> 1, role |-> "admin",
   iat |-> 0, exp |-> 4 * RefreshTTL]
\* The secret the app's middleware verifies with.
AppSecret(a) == IF a = AppRefresh THEN JWT_ACCESS_SECRET ELSE JWT_SECRET
\* What a client presents where the app expects its token: a token the app
\* issued for that place, a token signed with another secret, or no token.
Tokens == {tok \in issued : tok.secret = AppSecret(app)} \cup {Forged, Text("abc")}
\* What a client presents as the refreshToken cookie.
RefreshCookies ==
  {Undefined, EmptyStr, Forged, Text("abc")} \cup {tok \in issued : tok.secret = JWT_REFRESH_SECRET}
\* Authorization headers: none, the empty value, a scheme alone, a token
\* alone, scheme and token, and scheme and token with two spaces between.
Headers ==
  {NoHeader, Header(<<>>), Header(<<Bearer>>)}
    \cup {Header(<<tok>>) : tok \in Tokens \cap issued}
    \cup {Header(<<Bearer, SP, tok>>) : tok \in Tokens}
    \cup {Header(<<Bearer, SP, SP, tok>>) : tok \in Tokens \cap issued}
\* Values of the token cookie: none, empty, or a token.
Cookies == {Undefined, EmptyStr} \cup Tokens
Usernames == {"user1", "user2", "nobody"}
Passwords == {"pass1", "pass2"}
\* The instants the clock is observed at: the last second of a lifetime
\* that began at 0, and the second it ends.
Instants ==
  IF app = AppRefresh THEN {AccessTTL - 1, AccessTTL, RefreshTTL - 1, RefreshTTL}
  ELSE {TokenTTL - 1, TokenTTL}

\* ------------------------------------------------------------------ state
NoRequest == Request("none", NoHeader, Undefined, NoBody, 0)
NoResponse == Response(0, "", NoUser, FALSE, Undefined, Undefined)

\* No request is being handled.
Idle == req = NoRequest

JwtInit ==
  /\ app \in Apps
  /\ now = 0
  /\ issues = 0
  /\ refreshTokens = <<>>
  /\ issued = {}
  /\ loggedOut = {}
  /\ req = NoRequest
  /\ res = NoResponse

\* The mutant of FindUser that does not compare the password.
FindUserByName(username, password) ==
  {u \in users : u.username = username}

\* users.find(u => u.username === username && u.password === password)
FindUser(username, password) ==
  {u \in users : u.username = username /\ u.password = password}

\* refreshTokens.filter(token => token !== refreshToken)
RECURSIVE Without(_, _)
Without(tokens, refreshToken) ==
  IF tokens = <<>> THEN <<>>
  ELSE IF Head(tokens) # refreshToken
       THEN <<Head(tokens)>> \o Without(Tail(tokens), refreshToken)
       ELSE Without(Tail(tokens), refreshToken)

\* refreshTokens.includes(refreshToken)
Includes(tokens, refreshToken) == \E i \in 1..Len(tokens) : tokens[i] = refreshToken

\* ---------------------------------------------------------------- routes
\* POST /login of src/jwt.js.
LoginJwt(username, password) ==
  LET found == FindUser(username, password)
      body == [username |-> username, password |-> password]
  IN
  /\ Idle
  /\ app = AppJwt
  /\ req' = Request("login", NoHeader, Undefined, body, now)
  /\ IF found = {}
     THEN /\ res' = Response(401, "Invalid credentials", NoUser, TRUE, Undefined, Undefined)
          /\ UNCHANGED <<issues, issued>>
     ELSE LET user == CHOOSE u \in found : TRUE
              token == Sign(user.id, user.role, JWT_SECRET, TokenTTL, now)
          IN
          /\ issues < MaxIssues
          /\ issues' = issues + 1
          /\ res' = Response(200, "Login successful", NoUser, TRUE, token, Undefined)
          /\ issued' = issued \cup {token}
  /\ UNCHANGED <<app, now, refreshTokens>>
  /\ UNCHANGED loggedOut
  /\ UNCHANGED <<topicVars, fanoutVars, workVars, directVars>>

\* POST /login of the access + refresh app.
LoginRefresh(username, password) ==
  LET found == FindUser(username, password)
      body == [username |-> username, password |-> password]
  IN
  /\ Idle
  /\ app = AppRefresh
  /\ req' = Request("login", NoHeader, Undefined, body, now)
  /\ IF found = {}
     THEN /\ res' = Response(401, "Invalid credentials", NoUser, TRUE, Undefined, Undefined)
          /\ UNCHANGED <<issues, issued, refreshTokens>>
     ELSE LET user == CHOOSE u \in found : TRUE
              accessToken == Sign(user.id, user.role, JWT_ACCESS_SECRET, AccessTTL, now)
              refreshToken == Sign(user.id, UndefinedRole, JWT_REFRESH_SECRET, RefreshTTL, now)
          IN
          /\ issues < MaxIssues
          /\ issues' = issues + 1
          /\ refreshTokens' = Append(refreshTokens, refreshToken)
          /\ res' = Response(200, "Login successful", NoUser, TRUE, accessToken, refreshToken)
          /\ issued' = issued \cup {accessToken, refreshToken}
  /\ UNCHANGED <<app, now>>
  /\ UNCHANGED loggedOut
  /\ UNCHANGED <<topicVars, fanoutVars, workVars, directVars>>

\* POST /login of the cookie app.
LoginCookie(username, password) ==
  LET found == FindUser(username, password)
      body == [username |-> username, password |-> password]
  IN
  /\ Idle
  /\ app = AppCookie
  /\ req' = Request("login", NoHeader, Undefined, body, now)
  /\ IF found = {}
     THEN /\ res' = Response(401, "Invalid credentials", NoUser, TRUE, Undefined, Undefined)
          /\ UNCHANGED <<issues, issued>>
     ELSE LET user == CHOOSE u \in found : TRUE
              token == Sign(user.id, user.role, JWT_SECRET, TokenTTL, now)
          IN
          /\ issues < MaxIssues
          /\ issues' = issues + 1
          /\ res' = Response(200, "Login successful. Token stored in cookie.", NoUser, TRUE,
                             Undefined, token)
          /\ issued' = issued \cup {token}
  /\ UNCHANGED <<app, now, refreshTokens>>
  /\ UNCHANGED loggedOut
  /\ UNCHANGED <<topicVars, fanoutVars, workVars, directVars>>

ProfileMessage(a) == IF a = AppRefresh THEN "Protected profile data" ELSE "Profile data"
DeniedMessage(a) == IF a = AppCookie THEN "Access denied (admin only)" ELSE "Access denied"
AdminMessage(a) == IF a = AppRefresh THEN "Admin data access granted" ELSE "Admin data"

\* GET /profile behind the app's middleware.
Profile(hdr, cookie) ==
  LET mw == Authenticate(app, hdr, cookie, now) IN
  /\ Idle
  /\ req' = Request("profile", hdr, cookie, NoBody, now)
  /\ res' = IF mw.next
            THEN Response(200, ProfileMessage(app), mw.user, TRUE, Undefined, Undefined)
            ELSE Response(mw.status, mw.message, mw.user, FALSE, Undefined, Undefined)
  /\ UNCHANGED <<app, now, issues, refreshTokens, issued>>
  /\ UNCHANGED loggedOut
  /\ UNCHANGED <<topicVars, fanoutVars, workVars, directVars>>

\* The mutant of Admin whose handler does not look at req.user.role.
AdminNoRoleCheck(hdr, cookie) ==
  LET mw == Authenticate(app, hdr, cookie, now) IN
  /\ Idle
  /\ req' = Request("admin", hdr, cookie, NoBody, now)
  /\ res' = IF ~mw.next
            THEN Response(mw.status, mw.message, mw.user, FALSE, Undefined, Undefined)
            ELSE Response(200, AdminMessage(app), mw.user, TRUE, Undefined, Undefined)
  /\ UNCHANGED <<app, now, issues, refreshTokens, issued>>
  /\ UNCHANGED loggedOut
  /\ UNCHANGED <<topicVars, fanoutVars, workVars, directVars>>

\* GET /admin behind the app's middleware.
Admin(hdr, cookie) ==
  LET mw == Authenticate(app, hdr, cookie, now) IN
  /\ Idle
  /\ req' = Request("admin", hdr, cookie, NoBody, now)
  /\ res' = IF ~mw.next
            THEN Response(mw.status, mw.message, mw.user, FALSE, Undefined, Undefined)
            ELSE IF mw.user.role # "admin"
            THEN Response(403, DeniedMessage(app), mw.user, TRUE, Undefined, Undefined)
            ELSE Response(200, AdminMessage(app), mw.user, TRUE, Undefined, Undefined)
  /\ UNCHANGED <<app, now, issues, refreshTokens, issued>>
  /\ UNCHANGED loggedOut
  /\ UNCHANGED <<topicVars, fanoutVars, workVars, directVars>>

\* The mutant of Refresh that does not look the token up in refreshTokens.
RefreshNoStoreCheck(refreshToken) ==
  /\ Idle
  /\ app = AppRefresh
  /\ req' = Request("refresh", NoHeader, refreshToken, NoBody, now)
  /\ IF ~Truthy(refreshToken)
     THEN /\ res' = Response(401, "Refresh token missing", NoUser, TRUE, Undefined, Undefined)
          /\ UNCHANGED <<issues, issued>>
     ELSE IF ~VerifyOk(refreshToken, JWT_REFRESH_SECRET, now)
     THEN /\ res' = Response(403, "Invalid or expired refresh token", NoUser, TRUE, Undefined, Undefined)
          /\ UNCHANGED <<issues, issued>>
     ELSE LET user == Decoded(refreshToken)
              newAccessToken == Sign(user.id, user.role, JWT_ACCESS_SECRET, AccessTTL, now)
          IN
          /\ issues < MaxIssues
          /\ issues' = issues + 1
          /\ res' = Response(200, "", NoUser, TRUE, newAccessToken, Undefined)
          /\ issued' = issued \cup {newAccessToken}
  /\ UNCHANGED <<app, now, refreshTokens>>
  /\ UNCHANGED loggedOut
  /\ UNCHANGED <<topicVars, fanoutVars, workVars, directVars>>

\* The mutant of Refresh that rotates: a refresh token that has been used is
\* taken out of the store.
RefreshRotating(refreshToken) ==
  /\ Idle
  /\ app = AppRefresh
  /\ req' = Request("refresh", NoHeader, refreshToken, NoBody, now)
  /\ IF ~Truthy(refreshToken)
     THEN /\ res' = Response(401, "Refresh token missing", NoUser, TRUE, Undefined, Undefined)
          /\ UNCHANGED <<issues, issued, refreshTokens>>
     ELSE IF ~Includes(refreshTokens, refreshToken)
     THEN /\ res' = Response(403, "Invalid refresh token", NoUser, TRUE, Undefined, Undefined)
          /\ UNCHANGED <<issues, issued, refreshTokens>>
     ELSE IF ~VerifyOk(refreshToken, JWT_REFRESH_SECRET, now)
     THEN /\ res' = Response(403, "Invalid or expired refresh token", NoUser, TRUE, Undefined, Undefined)
          /\ UNCHANGED <<issues, issued, refreshTokens>>
     ELSE LET user == Decoded(refreshToken)
              newAccessToken == Sign(user.id, user.role, JWT_ACCESS_SECRET, AccessTTL, now)
          IN
          /\ issues < MaxIssues
          /\ issues' = issues + 1
          /\ res' = Response(200, "", NoUser, TRUE, newAccessToken, Undefined)
          /\ issued' = issued \cup {newAccessToken}
          /\ refreshTokens' = Without(refreshTokens, refreshToken)
  /\ UNCHANGED <<app, now>>
  /\ UNCHANGED loggedOut
  /\ UNCHANGED <<topicVars, fanoutVars, workVars, directVars>>

\* POST /refresh of the access + refresh app.
Refresh(refreshToken) ==
  /\ Idle
  /\ app = AppRefresh
  /\ req' = Request("refresh", NoHeader, refreshToken, NoBody, now)
  /\ IF ~Truthy(refreshToken)
     THEN /\ res' = Response(401, "Refresh token missing", NoUser, TRUE, Undefined, Undefined)
          /\ UNCHANGED <<issues, issued>>
     ELSE IF ~Includes(refreshTokens, refreshToken)
     THEN /\ res' = Response(403, "Invalid refresh token", NoUser, TRUE, Undefined, Undefined)
          /\ UNCHANGED <<issues, issued>>
     ELSE IF ~VerifyOk(refreshToken, JWT_REFRESH_SECRET, now)
     THEN /\ res' = Response(403, "Invalid or expired refresh token", NoUser, TRUE, Undefined, Undefined)
          /\ UNCHANGED <<issues, issued>>
     ELSE LET user == Decoded(refreshToken)
              newAccessToken == Sign(user.id, user.role, JWT_ACCESS_SECRET, AccessTTL, now)
          IN
          /\ issues < MaxIssues
          /\ issues' = issues + 1
          /\ res' = Response(200, "", NoUser, TRUE, newAccessToken, Undefined)
          /\ issued' = issued \cup {newAccessToken}
  /\ UNCHANGED <<app, now, refreshTokens>>
  /\ UNCHANGED loggedOut
  /\ UNCHANGED <<topicVars, fanoutVars, workVars, directVars>>

\* POST /logout of the access + refresh app.
LogoutRefresh(refreshToken) ==
  /\ Idle
  /\ app = AppRefresh
  /\ req' = Request("logout", NoHeader, refreshToken, NoBody, now)
  /\ refreshTokens' = Without(refreshTokens, refreshToken)
  /\ res' = Response(200, "Logged out successfully", NoUser, TRUE, Undefined, Undefined)
  /\ loggedOut' = IF refreshToken \in issued THEN loggedOut \cup {refreshToken} ELSE loggedOut
  /\ UNCHANGED <<app, now, issues, issued>>
  /\ UNCHANGED <<topicVars, fanoutVars, workVars, directVars>>

\* POST /logout of the cookie app.
LogoutCookie(cookie) ==
  /\ Idle
  /\ app = AppCookie
  /\ req' = Request("logout", NoHeader, cookie, NoBody, now)
  /\ res' = Response(200, "Logged out successfully", NoUser, TRUE, Undefined, Undefined)
  /\ UNCHANGED <<app, now, issues, refreshTokens, issued>>
  /\ UNCHANGED loggedOut
  /\ UNCHANGED <<topicVars, fanoutVars, workVars, directVars>>

\* The response has been sent: Express drops the request's req and res.
Finish ==
  /\ ~Idle
  /\ req' = NoRequest
  /\ res' = NoResponse
  /\ UNCHANGED <<app, now, issues, refreshTokens, issued>>
  /\ UNCHANGED loggedOut
  /\ UNCHANGED <<topicVars, fanoutVars, workVars, directVars>>

\* Time passes between requests (every handler runs to completion).  The
\* handlers read the clock only to stamp and to check tokens, so time is
\* counted from the first token issued and observed at the instants around
\* the end of a lifetime.
Tick(t) ==
  /\ Idle
  /\ issued # {}
  /\ t > now
  /\ now' = t
  /\ UNCHANGED <<app, issues, refreshTokens, issued, req, res>>
  /\ UNCHANGED loggedOut
  /\ UNCHANGED <<topicVars, fanoutVars, workVars, directVars>>

\* A request carries the Authorization header in the two header-based apps
\* and the token cookie in the cookie app.
Next ==
  \/ \E username \in Usernames, password \in Passwords : LoginJwt(username, password)
  \/ \E username \in Usernames, password \in Passwords : LoginRefresh(username, password)
  \/ \E username \in Usernames, password \in Passwords : LoginCookie(username, password)
  \/ \E hdr \in Headers : app # AppCookie /\ Profile(hdr, Undefined)
  \/ \E cookie \in Cookies : app = AppCookie /\ Profile(NoHeader, cookie)
  \/ \E hdr \in Headers : app # AppCookie /\ Admin(hdr, Undefined)
  \/ \E cookie \in Cookies : app = AppCookie /\ Admin(NoHeader, cookie)
  \/ \E cookie \in RefreshCookies : Refresh(cookie)
  \/ \E cookie \in RefreshCookies : LogoutRefresh(cookie)
  \/ \E cookie \in Cookies : LogoutCookie(cookie)
  \/ Finish
  \/ \E t \in Instants : Tick(t)

\* =================================================================== RabbitMQ
\* A routing key or binding key is the list of its dot-separated words;
\* the empty key '' is the empty list.
Star == "*"
Hash == "#"

\* The mutant of Matches in which # stands for one or more words.
RECURSIVE MatchesHashOneOrMore(_, _)
MatchesHashOneOrMore(bindingKey, routingKey) ==
  IF bindingKey = <<>> THEN routingKey = <<>>
  ELSE IF Head(bindingKey) = Hash
  THEN /\ routingKey # <<>>
       /\ \/ MatchesHashOneOrMore(Tail(bindingKey), Tail(routingKey))
          \/ MatchesHashOneOrMore(bindingKey, Tail(routingKey))
  ELSE /\ routingKey # <<>>
       /\ Head(bindingKey) = Star \/ Head(bindingKey) = Head(routingKey)
       /\ MatchesHashOneOrMore(Tail(bindingKey), Tail(routingKey))

\* Topic exchange: does the binding key match the routing key?  A word of the
\* binding key matches the same word, * matches exactly one word and #
\* matches zero or more words.
RECURSIVE Matches(_, _)
Matches(bindingKey, routingKey) ==
  IF bindingKey = <<>> THEN routingKey = <<>>
  ELSE IF Head(bindingKey) = Hash
  THEN \/ Matches(Tail(bindingKey), routingKey)
       \/ routingKey # <<>> /\ Matches(bindingKey, Tail(routingKey))
  ELSE /\ routingKey # <<>>
       /\ Head(bindingKey) = Star \/ Head(bindingKey) = Head(routingKey)
       /\ Matches(Tail(bindingKey), Tail(routingKey))

\* The mutant of RouteDirect that lets every binding match.
RouteDirectAny(bindingKey, routingKey) == TRUE

\* Direct exchange: the binding key is identical to the routing key.
RouteDirect(bindingKey, routingKey) == bindingKey = routingKey

\* Fanout exchange: every bound queue, whatever the routing key.
RouteFanout(bindingKey, routingKey) == TRUE

\* Does an exchange of this type route a message with this routing key to a
\* queue bound with this binding key?
Route(exchangeType, bindingKey, routingKey) ==
  IF exchangeType = "fanout" THEN RouteFanout(bindingKey, routingKey)
  ELSE IF exchangeType = "topic" THEN Matches(bindingKey, routingKey)
  ELSE RouteDirect(bindingKey, routingKey)

\* How many messages a producer publishes to an exchange in the model.
MaxPublishes == 2

\* A consumer script is "off" (not running), "declared" (its exclusive queue
\* exists, after assertQueue) or "bound" (after bindQueue and consume).

\* ------------------------------------------------------------ topic exchange
\* exchangeType of the topic example's scripts.
TopicExchangeType == "topic"

TopicConsumers == {"user", "payments", "analytics"}
\* bindingKey of user_consumer.js, payments_consumer.js, analytics_consumer.js.
BindingKey(c) ==
  IF c = "user" THEN <<"user", Hash>>
  ELSE IF c = "payments" THEN <<Hash, "payments">>
  ELSE <<Star, "europe", Star>>

\* key1 and key2 of producer.js.
key1 == <<"user", "europe", "payments">>
key2 == <<"business", "europe", "order">>
\* The routing keys a producer publishes with: those of producer.js and
\* shorter ones.
RoutingKeys ==
  {key1, key2, <<"user">>, <<"payments">>, <<"user", "payments">>, <<"business", "order">>}

TopicInit ==
  /\ tPc = [c \in TopicConsumers |-> "off"]
  /\ tQueue = [c \in TopicConsumers |-> <<>>]
  /\ tSent = <<>>

\* startConsumer up to assertQueue('', {exclusive: true}).
TopicDeclare(c) ==
  /\ tPc[c] = "off"
  /\ tPc' = [tPc EXCEPT ![c] = "declared"]
  /\ UNCHANGED <<tQueue, tSent>>
  /\ UNCHANGED <<jwtVars, fanoutVars, workVars, directVars>>

\* bindQueue(q.queue, exchangeName, bindingKey) and consume.
TopicBind(c) ==
  /\ tPc[c] = "declared"
  /\ tPc' = [tPc EXCEPT ![c] = "bound"]
  /\ UNCHANGED <<tQueue, tSent>>
  /\ UNCHANGED <<jwtVars, fanoutVars, workVars, directVars>>

\* channel.publish(exchangeName, key, ...): the exchange copies the message
\* to each bound queue its type routes the key to.
TopicPublish(key) ==
  /\ Len(tSent) < MaxPublishes
  /\ tQueue' = [c \in TopicConsumers |->
                  IF tPc[c] = "bound" /\ Route(TopicExchangeType, BindingKey(c), key)
                  THEN Append(tQueue[c], key) ELSE tQueue[c]]
  /\ tSent' = Append(tSent, key)
  /\ UNCHANGED tPc
  /\ UNCHANGED <<jwtVars, fanoutVars, workVars, directVars>>

\* The consume callback prints the head of the queue (noAck: true).
TopicConsume(c) ==
  /\ tPc[c] = "bound"
  /\ tQueue[c] # <<>>
  /\ tQueue' = [tQueue EXCEPT ![c] = Tail(tQueue[c])]
  /\ UNCHANGED <<tPc, tSent>>
  /\ UNCHANGED <<jwtVars, fanoutVars, workVars, directVars>>

\* The consumer's connection closes: its exclusive queue is deleted.
TopicClose(c) ==
  /\ tPc[c] # "off"
  /\ tPc' = [tPc EXCEPT ![c] = "off"]
  /\ tQueue' = [tQueue EXCEPT ![c] = <<>>]
  /\ UNCHANGED tSent
  /\ UNCHANGED <<jwtVars, fanoutVars, workVars, directVars>>

TopicNext ==
  \/ \E c \in TopicConsumers : TopicDeclare(c)
  \/ \E c \in TopicConsumers : TopicBind(c)
  \/ \E key \in RoutingKeys : TopicPublish(key)
  \/ \E c \in TopicConsumers : TopicConsume(c)
  \/ \E c \in TopicConsumers : TopicClose(c)

\* ----------------------------------------------------------- fanout exchange
\* The mutant of exchangeType: the pubsub exchange declared direct.
exchangeTypeDirect == "direct"

\* exchangeType of producer.js, consumer1.js and consumer2.js.
exchangeType == "fanout"

FanoutConsumers == {"consumer1", "consumer2"}
\* The binding key both consumers pass to bindQueue: ''.
FanoutBindingKey == <<>>
\* The routing keys published with: '' as producer.js does, and others.
FanoutKeys == {<<>>, <<"news">>, <<"user", "payments">>}

FanoutInit ==
  /\ fPc = [c \in FanoutConsumers |-> "off"]
  /\ fQueue = [c \in FanoutConsumers |-> <<>>]
  /\ fSent = <<>>

\* startConsumer up to assertQueue('', {exclusive: true}).
FanoutDeclare(c) ==
  /\ fPc[c] = "off"
  /\ fPc' = [fPc EXCEPT ![c] = "declared"]
  /\ UNCHANGED <<fQueue, fSent>>
  /\ UNCHANGED <<jwtVars, topicVars, workVars, directVars>>

\* bindQueue(q.queue, exchangeName, '') and consume.
FanoutBind(c) ==
  /\ fPc[c] = "declared"
  /\ fPc' = [fPc EXCEPT ![c] = "bound"]
  /\ UNCHANGED <<fQueue, fSent>>
  /\ UNCHANGED <<jwtVars, topicVars, workVars, directVars>>

\* channel.publish(exchangeName, key, ...): the exchange copies the message
\* to each queue bound to it.
FanoutPublish(key) ==
  /\ Len(fSent) < MaxPublishes
  /\ fQueue' = [c \in FanoutConsumers |->
                  IF fPc[c] = "bound" /\ Route(exchangeType, FanoutBindingKey, key)
                  THEN Append(fQueue[c], key) ELSE fQueue[c]]
  /\ fSent' = Append(fSent, key)
  /\ UNCHANGED fPc
  /\ UNCHANGED <<jwtVars, topicVars, workVars, directVars>>

\* The consume callback logs the head of the queue (noAck: true).
FanoutConsume(c) ==
  /\ fPc[c] = "bound"
  /\ fQueue[c] # <<>>
  /\ fQueue' = [fQueue EXCEPT ![c] = Tail(fQueue[c])]
  /\ UNCHANGED <<fPc, fSent>>
  /\ UNCHANGED <<jwtVars, topicVars, workVars, directVars>>

\* The consumer's connection closes: its temporary queue is deleted.
FanoutClose(c) ==
  /\ fPc[c] # "off"
  /\ fPc' = [fPc EXCEPT ![c] = "off"]
  /\ fQueue' = [fQueue EXCEPT ![c] = <<>>]
  /\ UNCHANGED fSent
  /\ UNCHANGED <<jwtVars, topicVars, workVars, directVars>>

FanoutNext ==
  \/ \E c \in FanoutConsumers : FanoutDeclare(c)
  \/ \E c \in FanoutConsumers : FanoutBind(c)
  \/ \E key \in FanoutKeys : FanoutPublish(key)
  \/ \E c \in FanoutConsumers : FanoutConsume(c)
  \/ \E c \in FanoutConsumers : FanoutClose(c)

\* -------------------------------------------------------- competing consumers
\* How many messages the producer sends in the model.
MaxMessages == 3

\* channel.prefetch(1) of consumer.js.
PrefetchCount == 1

Workers == {"A", "B"}

WorkInit ==
  /\ wPc = [c \in Workers |-> "off"]
  /\ wQueue = <<>>
  /\ wUnacked = [c \in Workers |-> <<>>]
  /\ wAcked = [c \in Workers |-> <<>>]
  /\ messageId = 1

\* startConsumer: assertQueue, prefetch(1), consume with noAck: false.
WorkStart(c) ==
  /\ wPc[c] = "off"
  /\ wPc' = [wPc EXCEPT ![c] = "consuming"]
  /\ UNCHANGED <<wQueue, wUnacked, wAcked, messageId>>
  /\ UNCHANGED <<jwtVars, topicVars, fanoutVars, directVars>>

\* One turn of the producer's loop: sendToQueue, sleep, messageId++.
WorkProduce ==
  /\ messageId <= MaxMessages
  /\ wQueue' = Append(wQueue, messageId)
  /\ messageId' = messageId + 1
  /\ UNCHANGED <<wPc, wUnacked, wAcked>>
  /\ UNCHANGED <<jwtVars, topicVars, fanoutVars, directVars>>

\* The mutant of HasCapacity: no prefetch limit, as without channel.prefetch.
HasCapacityUnlimited(c) == TRUE

\* With prefetch(1) RabbitMQ sends a worker no further message until the
\* worker has acknowledged its current one.
HasCapacity(c) == Len(wUnacked[c]) < PrefetchCount

\* The mutant of WorkDispatch that also dispatches to a worker that has not
\* started consuming.
WorkDispatchOff(c) ==
  /\ wQueue # <<>>
  /\ HasCapacity(c)
  /\ wUnacked' = [wUnacked EXCEPT ![c] = Append(wUnacked[c], Head(wQueue))]
  /\ wQueue' = Tail(wQueue)
  /\ UNCHANGED <<wPc, wAcked, messageId>>
  /\ UNCHANGED <<jwtVars, topicVars, fanoutVars, directVars>>

\* RabbitMQ dispatches the head of the queue to one worker that is consuming
\* and free; the consume callback starts its processing timer.
WorkDispatch(c) ==
  /\ wPc[c] = "consuming"
  /\ wQueue # <<>>
  /\ HasCapacity(c)
  /\ wUnacked' = [wUnacked EXCEPT ![c] = Append(wUnacked[c], Head(wQueue))]
  /\ wQueue' = Tail(wQueue)
  /\ UNCHANGED <<wPc, wAcked, messageId>>
  /\ UNCHANGED <<jwtVars, topicVars, fanoutVars, directVars>>

\* The setTimeout callback: channel.ack(msg) for the oldest message in
\* flight at the worker.
WorkAck(c) ==
  /\ wUnacked[c] # <<>>
  /\ wAcked' = [wAcked EXCEPT ![c] = Append(wAcked[c], Head(wUnacked[c]))]
  /\ wUnacked' = [wUnacked EXCEPT ![c] = Tail(wUnacked[c])]
  /\ UNCHANGED <<wPc, wQueue, messageId>>
  /\ UNCHANGED <<jwtVars, topicVars, fanoutVars, directVars>>

WorkNext ==
  \/ \E c \in Workers : WorkStart(c)
  \/ WorkProduce
  \/ \E c \in Workers : WorkDispatch(c)
  \/ \E c \in Workers : WorkAck(c)

\* ----------------------------------------------------------- direct exchange
\* exchangeType of the routing example's scripts.
DirectExchangeType == "direct"

DirectConsumers == {"payments", "analytics"}
\* The keys consumer_payments.js and consumer_analytics.js pass to their
\* first and second bindQueue.
FirstBindingKey(c) == IF c = "payments" THEN <<"paymentsOnly">> ELSE <<"analyticsonly">>
SecondBindingKey(c) == <<"both">>

\* process.argv[2] of producer.js: no argument, the three keys of the
\* example, and a key no queue is bound with.
ProducerArgs == {<<>>, <<"paymentsOnly">>, <<"analyticsonly">>, <<"both">>, <<"paymentsonly">>}
\* const routingKey = process.argv[2] || 'both'
RoutingKeyOf(arg) == IF arg = <<>> THEN <<"both">> ELSE arg

DirectInit ==
  /\ dPc = [c \in DirectConsumers |-> "off"]
  /\ dBindings = [c \in DirectConsumers |-> {}]
  /\ dQueue = [c \in DirectConsumers |-> <<>>]
  /\ dSent = <<>>

\* startConsumer up to assertQueue("", {exclusive: true}).
DirectDeclare(c) ==
  /\ dPc[c] = "off"
  /\ dPc' = [dPc EXCEPT ![c] = "declared"]
  /\ UNCHANGED <<dBindings, dQueue, dSent>>
  /\ UNCHANGED <<jwtVars, topicVars, fanoutVars, workVars>>

\* The first bindQueue.
DirectBindFirst(c) ==
  /\ dPc[c] = "declared"
  /\ dPc' = [dPc EXCEPT ![c] = "bound1"]
  /\ dBindings' = [dBindings EXCEPT ![c] = dBindings[c] \cup {FirstBindingKey(c)}]
  /\ UNCHANGED <<dQueue, dSent>>
  /\ UNCHANGED <<jwtVars, topicVars, fanoutVars, workVars>>

\* The second bindQueue, with "both", and consume.
DirectBindSecond(c) ==
  /\ dPc[c] = "bound1"
  /\ dPc' = [dPc EXCEPT ![c] = "bound"]
  /\ dBindings' = [dBindings EXCEPT ![c] = dBindings[c] \cup {SecondBindingKey(c)}]
  /\ UNCHANGED <<dQueue, dSent>>
  /\ UNCHANGED <<jwtVars, topicVars, fanoutVars, workVars>>

\* producer.js run with this argument: channel.publish(exchangeName,
\* routingKey, ...); the exchange puts one copy of the message in each queue
\* that has a binding its type routes the key to.
DirectPublish(arg) ==
  LET routingKey == RoutingKeyOf(arg) IN
  /\ Len(dSent) < MaxPublishes
  /\ dQueue' = [c \in DirectConsumers |->
                  IF \E bindingKey \in dBindings[c] : Route(DirectExchangeType, bindingKey, routingKey)
                  THEN Append(dQueue[c], routingKey) ELSE dQueue[c]]
  /\ dSent' = Append(dSent, routingKey)
  /\ UNCHANGED <<dPc, dBindings>>
  /\ UNCHANGED <<jwtVars, topicVars, fanoutVars, workVars>>

\* The consume callback logs the head of the queue (noAck: true); it is
\* registered after the second bindQueue.
DirectConsume(c) ==
  /\ dPc[c] = "bound"
  /\ dQueue[c] # <<>>
  /\ dQueue' = [dQueue EXCEPT ![c] = Tail(dQueue[c])]
  /\ UNCHANGED <<dPc, dBindings, dSent>>
  /\ UNCHANGED <<jwtVars, topicVars, fanoutVars, workVars>>

\* The consumer's connection closes: its exclusive queue and the queue's
\* bindings are deleted.
DirectClose(c) ==
  /\ dPc[c] # "off"
  /\ dPc' = [dPc EXCEPT ![c] = "off"]
  /\ dBindings' = [dBindings EXCEPT ![c] = {}]
  /\ dQueue' = [dQueue EXCEPT ![c] = <<>>]
  /\ UNCHANGED dSent
  /\ UNCHANGED <<jwtVars, topicVars, fanoutVars, workVars>>

DirectNext ==
  \/ \E c \in DirectConsumers : DirectDeclare(c)
  \/ \E c \in DirectConsumers : DirectBindFirst(c)
  \/ \E c \in DirectConsumers : DirectBindSecond(c)
  \/ \E arg \in ProducerArgs : DirectPublish(arg)
  \/ \E c \in DirectConsumers : DirectConsume(c)
  \/ \E c \in DirectConsumers : DirectClose(c)

\* ============================================================ specifications
Init == JwtInit /\ TopicInit /\ FanoutInit /\ WorkInit /\ DirectInit

\* The Express server of the chosen application.
Spec == Init /\ [][Next]_vars
\* The topic exchange with its producer and three consumers.
SpecTopic == Init /\ [][TopicNext]_vars
\* The fanout exchange with its producer and two consumers.
SpecFanout == Init /\ [][FanoutNext]_vars
\* The letterbox queue with its producer and two workers.
SpecWork == Init /\ [][WorkNext]_vars
\* The direct exchange with its producer and two consumers.
SpecDirect == Init /\ [][DirectNext]_vars

\* ==================================================================== claims
\* C10: in each of the three apps the handlers of GET /profile and GET /admin
\* run, and req.user is set, only for a request whose token is a JWT signed
\* with the server's secret and not yet expired when the request is handled.
\* A request without an Authorization header (a header the middleware's
\* !authHeader test takes as absent; in the cookie app, without a token
\* cookie) is answered 401; a header whose value has no second
\* space-separated part, or an empty one, is answered 401 'Token missing'; a
\* token that does not verify or has expired is answered 403.  In none of
\* these cases is req.user set or the route handler reached.
C10_GuardedRoutes ==
  req.route \in {"profile", "admin"} =>
    LET parts == Split(req.hdr.value)
        hasCredential == IF app = AppCookie THEN Truthy(req.cookie) ELSE HeaderTruthy(req.hdr)
        token == IF app = AppCookie THEN req.cookie
                 ELSE IF Len(parts) >= 2 THEN parts[2] ELSE Undefined
        secret == IF app = AppRefresh THEN JWT_ACCESS_SECRET ELSE JWT_SECRET
        verifies == /\ hasCredential
                    /\ token.kind = "jwt"
                    /\ token.secret = secret
                    /\ req.at < token.exp
        untouched == ~res.handler /\ ~res.user.present
    IN
    /\ (res.handler \/ res.user.present) => verifies
    /\ ~hasCredential => res.status = 401 /\ untouched
    /\ (app # AppCookie /\ hasCredential /\ token.kind \in {"undefined", "empty"}) =>
         res.status = 401 /\ res.message = "Token missing" /\ untouched
    /\ (hasCredential /\ token.kind \notin {"undefined", "empty"} /\ ~verifies) =>
         res.status = 403 /\ untouched
    /\ verifies => res.handler /\ res.user.present

\* A token the server issued is presented after its lifetime and refused.
C10_Witness ==
  /\ req.route = "profile"
  /\ LET token == IF app = AppCookie THEN req.cookie ELSE At(Split(req.hdr.value), 1) IN
     /\ token \in issued
     /\ token.secret = AppSecret(app)
     /\ req.at >= token.exp
  /\ res.status = 403
  /\ ~res.handler

\* Pattern and key split on '.', word for word: some way of cutting the key
\* into consecutive spans, one per pattern word, gives a literal word the
\* span of that one word, * a span of exactly one word and # a span of zero
\* or more words.
MatchesByCut(pattern, key) ==
  \E cut \in [0..Len(pattern) -> 0..Len(key)] :
    /\ cut[0] = 0
    /\ cut[Len(pattern)] = Len(key)
    /\ \A i \in 1..Len(pattern) :
         IF pattern[i] = Hash THEN cut[i] >= cut[i - 1]
         ELSE /\ cut[i] = cut[i - 1] + 1
              /\ pattern[i] = Star \/ pattern[i] = key[cut[i]]

\* C2: on the topic exchange a message published with routing key K is
\* delivered to exactly the queues bound with a pattern that matches K, where
\* * matches exactly one segment and # zero or more: each such queue gets the
\* message appended and every other queue is left as it was.  In particular
\* 'user.#' and '#.payments' match 'user.europe.payments', '*.europe.*'
\* matches 'user.europe.payments' and 'business.europe.order', and
\* '#.payments' does not match 'business.europe.order'.
C2_TopicDelivery ==
  [][\A key \in RoutingKeys :
       tSent' = Append(tSent, key) =>
         /\ \A c \in TopicConsumers :
              tQueue'[c] = IF tPc[c] = "bound" /\ MatchesByCut(BindingKey(c), key)
                           THEN Append(tQueue[c], key) ELSE tQueue[c]
         /\ Matches(<<"user", Hash>>, <<"user", "europe", "payments">>)
         /\ Matches(<<Hash, "payments">>, <<"user", "europe", "payments">>)
         /\ Matches(<<Star, "europe", Star>>, <<"user", "europe", "payments">>)
         /\ Matches(<<Star, "europe", Star>>, <<"business", "europe", "order">>)
         /\ ~Matches(<<Hash, "payments">>, <<"business", "europe", "order">>)]_vars

\* The run of the example: with the three consumers bound, the first message
\* has reached all three queues and the second the analytics queue alone.
C2_Witness ==
  /\ \A c \in TopicConsumers : tPc[c] = "bound"
  /\ tSent = <<key1, key2>>
  /\ tQueue["user"] = <<key1>>
  /\ tQueue["payments"] = <<key1>>
  /\ tQueue["analytics"] = <<key1, key2>>

\* C3: on the fanout exchange one publish puts exactly one copy of the
\* message in every queue bound at the time of the publish, whatever the
\* routing key, and nothing in a queue that is not bound.
C3_FanoutDelivery ==
  [][\A key \in FanoutKeys :
       fSent' = Append(fSent, key) =>
         \A c \in FanoutConsumers :
           fQueue'[c] = IF fPc[c] = "bound" THEN Append(fQueue[c], key) ELSE fQueue[c]]_vars

\* Two publishes with different routing keys have each left one copy in the
\* bound queue of consumer1 and nothing in the declared, unbound queue of
\* consumer2.
C3_Witness ==
  /\ fPc["consumer1"] = "bound"
  /\ fPc["consumer2"] = "declared"
  /\ fSent = << <<>>, <<"news">> >>
  /\ fQueue["consumer1"] = << <<>>, <<"news">> >>
  /\ fQueue["consumer2"] = <<>>

\* C6: with both workers at prefetch 1, a worker is given a message only when
\* it has none in flight, so it never holds two; while one worker holds an
\* unacknowledged message, a message that leaves the queue goes to the other
\* worker, which had none in flight.
C6_PrefetchFairness ==
  [][/\ \A c \in Workers :
          /\ Len(wUnacked'[c]) <= 1
          /\ Len(wUnacked'[c]) > Len(wUnacked[c]) => wUnacked[c] = <<>>
     /\ \A c \in Workers, d \in Workers :
          (c # d /\ wUnacked[c] # <<>> /\ wQueue # <<>> /\ wQueue' = Tail(wQueue)) =>
            /\ wUnacked[d] = <<>>
            /\ wUnacked'[d] = <<Head(wQueue)>>
            /\ wUnacked'[c] = wUnacked[c]]_vars

\* Worker A still holds message 1 while worker B has been given, and has
\* acknowledged, messages 2 and 3.
C6_Witness ==
  /\ wUnacked["A"] = <<1>>
  /\ wAcked["B"] = <<2, 3>>

\* The token a request to a guarded route presents: the token cookie in the
\* cookie app, the second space-separated piece of the Authorization header
\* in the other two.
PresentedToken ==
  IF app = AppCookie THEN req.cookie
  ELSE IF HeaderTruthy(req.hdr) /\ Len(Split(req.hdr.value)) >= 2 THEN Split(req.hdr.value)[2]
  ELSE Undefined

\* The presented token is a JWT signed with the secret the app verifies
\* with, and the request was handled before its expiry.
PresentedVerifies ==
  /\ PresentedToken.kind = "jwt"
  /\ PresentedToken.secret = (IF app = AppRefresh THEN JWT_ACCESS_SECRET ELSE JWT_SECRET)
  /\ req.at < PresentedToken.exp

\* The token a successful login hands to the client for the guarded routes:
\* the cookie in the cookie app, the token of the JSON body in the others.
LoginToken == IF app = AppCookie THEN res.cookie ELSE res.token

\* What C11 says of logins and of GET /admin, given the message that
\* refuses a verified token without the admin role.
AdminRule(denied) ==
  /\ (req.route = "login" /\ res.status = 200) =>
       /\ req.body.username = "user1" => LoginToken.id = 1 /\ LoginToken.role = "admin"
       /\ req.body.username = "user2" => LoginToken.id = 2 /\ LoginToken.role = "user"
  /\ \A tok \in issued :
       (tok.secret # JWT_REFRESH_SECRET /\ tok.role # UndefinedRole) =>
         (tok.id = 1 /\ tok.role = "admin") \/ (tok.id = 2 /\ tok.role = "user")
  /\ req.route = "admin" =>
       /\ res.status = 200 <=> (PresentedVerifies /\ PresentedToken.role = "admin")
       /\ res.status = 200 =>
            res.message = (IF app = AppRefresh THEN "Admin data access granted" ELSE "Admin data")
       /\ (PresentedVerifies /\ PresentedToken.role # "admin") =>
            res.status = 403 /\ res.message = denied

\* C11, as the source has it: GET /admin returns admin data only for a
\* verified token whose role is 'admin' and answers 403 for every verified
\* token with another role, with the message 'Access denied' in jwt.js and
\* the access + refresh app and 'Access denied (admin only)' in the cookie
\* app; a login as user1 hands out a token with role admin, which is granted
\* admin data while it verifies, and a login as user2 a token with role user,
\* which never is.
C11_AdminNeedsAdminRole ==
  AdminRule(IF app = AppCookie THEN "Access denied (admin only)" ELSE "Access denied")

\* C11 as stated: the refusal reads 'Access denied' in all three apps.
C11_AsStated == AdminRule("Access denied")

\* In the cookie app a token from a login as user2 is presented to GET /admin
\* while it verifies and is refused.
C11_Witness ==
  /\ app = AppCookie
  /\ req.route = "admin"
  /\ PresentedToken \in issued
  /\ PresentedToken.id = 2
  /\ PresentedVerifies
  /\ res.status = 403
  /\ res.handler

\* C12: in the access + refresh app, once POST /logout has been called with
\* refresh token T in the cookie, every later POST /refresh that presents T
\* is answered 403 'Invalid refresh token' and issues no access token,
\* whatever requests happen in between.
C12_LogoutInvalidates ==
  (app = AppRefresh /\ req.route = "refresh" /\ req.cookie \in loggedOut) =>
    /\ res.status = 403
    /\ res.message = "Invalid refresh token"
    /\ res.token = Undefined

\* C13: POST /refresh issues a new access token if and only if the
\* refreshToken cookie is present, its value is in the refreshTokens store
\* when the request is handled, and it verifies under the refresh secret
\* (signature and 7-day expiry).  A missing (or empty) cookie is answered
\* 401, a token not in the store 403 'Invalid refresh token', and a stored
\* token that fails verification or has expired 403 'Invalid or expired
\* refresh token'.
C13_RefreshRule ==
  (app = AppRefresh /\ req.route = "refresh") =>
    LET present == req.cookie.kind \notin {"undefined", "empty"}
        stored == \E i \in 1..Len(refreshTokens) : refreshTokens[i] = req.cookie
        verifies == /\ req.cookie.kind = "jwt"
                    /\ req.cookie.secret = JWT_REFRESH_SECRET
                    /\ req.at < req.cookie.iat + RefreshTTL
    IN
    /\ res.token # Undefined <=> (present /\ stored /\ verifies)
    /\ res.token # Undefined =>
         /\ res.status = 200
         /\ res.token.kind = "jwt"
         /\ res.token.secret = JWT_ACCESS_SECRET
         /\ res.token \in issued
    /\ ~present => res.status = 401
    /\ (present /\ ~stored) => res.status = 403 /\ res.message = "Invalid refresh token"
    /\ (present /\ stored /\ ~verifies) =>
         res.status = 403 /\ res.message = "Invalid or expired refresh token"

\* A refresh token still in the store is presented when its seven days are
\* over and is refused as expired.
C13_Witness ==
  /\ app = AppRefresh
  /\ req.route = "refresh"
  /\ \E i \in 1..Len(refreshTokens) : refreshTokens[i] = req.cookie
  /\ req.at >= req.cookie.exp
  /\ res.status = 403
  /\ res.message = "Invalid or expired refresh token"

\* C14: an access token the app issued is accepted by GET /profile and GET
\* /admin (req.user is set and the route handler runs) at every time before
\* its expiry, 15 minutes after issue in the access + refresh app and 1 hour
\* in the single-token apps, and is refused with 403 at every time from its
\* expiry on; this holds in every reachable state, so also for a token issued
\* before a POST /logout and presented after it.
C14_AccessTokenLivesUntilExpiry ==
  (/\ req.route \in {"profile", "admin"}
   /\ PresentedToken \in issued
   /\ PresentedToken.secret = (IF app = AppRefresh THEN JWT_ACCESS_SECRET ELSE JWT_SECRET)) =>
    LET lifetime == IF app = AppRefresh THEN 900 ELSE 3600
        accepted == res.handler /\ res.user.present
    IN
    /\ req.at < PresentedToken.iat + lifetime => accepted /\ res.user.id = PresentedToken.id
    /\ req.at >= PresentedToken.iat + lifetime => ~accepted /\ res.status = 403

\* The refresh token of a login has been logged out, and the access token of
\* that login is presented afterwards, in the last second of its fifteen
\* minutes, and accepted.
C14_Witness ==
  /\ app = AppRefresh
  /\ req.route = "profile"
  /\ PresentedToken \in issued
  /\ PresentedToken.secret = JWT_ACCESS_SECRET
  /\ PresentedToken.role # UndefinedRole
  /\ \E T \in loggedOut : T.id = PresentedToken.id /\ T.iat = PresentedToken.iat
  /\ refreshTokens = <<>>
  /\ req.at = PresentedToken.iat + 899
  /\ res.status = 200
  /\ res.handler

\* C15: on the direct exchange a message published with routing key K is
\* delivered to exactly the queues that have a binding whose key is identical
\* to K, one copy per queue however many bindings the queue has.  With the
\* bindings of the two consumers in place, 'paymentsOnly' reaches only the
\* payments queue, 'analyticsonly' only the analytics queue and 'both' both.
C15_DirectDelivery ==
  [][\A key \in {RoutingKeyOf(arg) : arg \in ProducerArgs} :
       dSent' = Append(dSent, key) =>
         LET got(c) == dQueue'[c] = Append(dQueue[c], key)
             not(c) == dQueue'[c] = dQueue[c]
         IN
         /\ \A c \in DirectConsumers :
              IF key \in dBindings[c] THEN got(c) ELSE not(c)
         /\ (\A c \in DirectConsumers : dPc[c] = "bound") =>
              /\ key = <<"paymentsOnly">> => got("payments") /\ not("analytics")
              /\ key = <<"analyticsonly">> => not("payments") /\ got("analytics")
              /\ key = <<"both">> => got("payments") /\ got("analytics")]_vars

\* With both consumers bound twice, 'both' has reached both queues and
\* 'paymentsOnly' the payments queue alone.
C15_Witness ==
  /\ \A c \in DirectConsumers : dPc[c] = "bound" /\ Cardinality(dBindings[c]) = 2
  /\ dSent = << <<"both">>, <<"paymentsOnly">> >>
  /\ dQueue["payments"] = << <<"both">>, <<"paymentsOnly">> >>
  /\ dQueue["analytics"] = << <<"both">> >>

\* The role claim of the access token a login as the user with this id
\* gets: admin for user1, user for user2.
LoginRoleOf(id) == IF id = 1 THEN "admin" ELSE "user"

\* C26: in the access + refresh app an access token issued by POST /refresh
\* carries the same id and role claims as the access token of the login that
\* created the refresh token, so a request to GET /admin with a refreshed
\* access token of user1, while it verifies, is granted like one with the
\* login's access token.
C26_RefreshKeepsClaims ==
  /\ (app = AppRefresh /\ req.route = "refresh" /\ res.status = 200) =>
       /\ res.token.id = req.cookie.id
       /\ res.token.role = LoginRoleOf(req.cookie.id)
  /\ (/\ app = AppRefresh
      /\ req.route = "admin"
      /\ PresentedToken \in issued
      /\ PresentedVerifies
      /\ PresentedToken.id = 1) => res.status = 200

\* The store without its i-th entry.
StoreWithoutEntry(store, i) == SubSeq(store, 1, i - 1) \o SubSeq(store, i + 1, Len(store))

\* C27: POST /logout removes from the refreshTokens store exactly the refresh
\* token presented in the cookie, the entry of one login, and leaves every
\* other entry (other users, other logins of the same user) in place; a
\* logout without a refreshToken cookie leaves the store unchanged; either
\* way the answer is 200 'Logged out successfully'.
C27_LogoutRemovesOnlyPresented ==
  [][(app = AppRefresh /\ req.route = "none" /\ req'.route = "logout") =>
       LET presented == req'.cookie IN
       /\ res'.status = 200
       /\ res'.message = "Logged out successfully"
       /\ presented.kind \in {"undefined", "empty"} => refreshTokens' = refreshTokens
       /\ \/ /\ \A i \in 1..Len(refreshTokens) : refreshTokens[i] # presented
             /\ refreshTokens' = refreshTokens
          \/ \E i \in 1..Len(refreshTokens) :
               /\ refreshTokens[i] = presented
               /\ refreshTokens' = StoreWithoutEntry(refreshTokens, i)]_vars

\* C28: in the access + refresh app POST /refresh, GET /profile, GET /admin
\* and a POST /login answered 401 leave the refreshTokens store as it was;
\* the store changes only by a successful login, which appends the new
\* refresh token, or by a logout, which only removes entries.  There is no
\* rotation: a refresh token that is in the store and has not expired is
\* answered 200 by POST /refresh however often it has been used before.
C28_StoreFrame ==
  [][(app = AppRefresh /\ req.route = "none" /\ req'.route # "none") =>
       LET stored(T) == \E i \in 1..Len(refreshTokens) : refreshTokens[i] = T IN
       /\ req'.route \in {"refresh", "profile", "admin"} => refreshTokens' = refreshTokens
       /\ (req'.route = "login" /\ res'.status = 401) => refreshTokens' = refreshTokens
       /\ refreshTokens' # refreshTokens =>
            \/ /\ req'.route = "login"
               /\ res'.status = 200
               /\ refreshTokens' = Append(refreshTokens, res'.cookie)
            \/ /\ req'.route = "logout"
               /\ Len(refreshTokens') < Len(refreshTokens)
               /\ \A i \in 1..Len(refreshTokens') : stored(refreshTokens'[i])
       /\ (/\ req'.route = "refresh"
           /\ stored(req'.cookie)
           /\ req'.cookie.kind = "jwt"
           /\ req'.at < req'.cookie.iat + 604800) =>
            /\ res'.status = 200
            /\ \E i \in 1..Len(refreshTokens') : refreshTokens'[i] = req'.cookie]_vars

\* The refresh token of the only login is used at POST /refresh a second
\* time, at a later second than the first, and is answered 200 again.
C28_Witness ==
  /\ app = AppRefresh
  /\ req.route = "refresh"
  /\ res.status = 200
  /\ Len(refreshTokens) = 1
  /\ refreshTokens[1] = req.cookie
  /\ loggedOut = {}
  /\ \E tok \in issued :
       /\ tok.secret = JWT_ACCESS_SECRET
       /\ tok.role = UndefinedRole
       /\ tok.id = req.cookie.id
       /\ tok.iat < res.token.iat

\* C29: in the access + refresh app every entry of refreshTokens is a refresh
\* token of a built-in user that a login issued; an entry is appended only by
\* a POST /login whose body is the username and the password of one built-in
\* user, and it carries that user's id; after a POST /logout that presented a
\* token no entry equals it, so an entry has not been presented to /logout
\* since the login that appended it.  Consequently an access token issued by
\* POST /refresh carries the id of a user for whom a login with the correct
\* credentials has issued an access token.
C29_StoreOnlyHoldsLoginTokens ==
  [][app = AppRefresh =>
       LET Credentials == { <<1, "user1", "pass1">>, <<2, "user2", "pass2">> }
           byLogin(tok) == /\ tok \in issued'
                           /\ tok.secret = JWT_ACCESS_SECRET
                           /\ tok.role # UndefinedRole
       IN
       /\ \A i \in 1..Len(refreshTokens') :
            /\ refreshTokens'[i] \in issued'
            /\ refreshTokens'[i].kind = "jwt"
            /\ refreshTokens'[i].secret = JWT_REFRESH_SECRET
            /\ refreshTokens'[i].id \in {1, 2}
            /\ \E tok \in issued' : byLogin(tok) /\ tok.id = refreshTokens'[i].id
       /\ (req.route = "none" /\ req'.route = "login" /\ res'.status = 200) =>
            \E c \in Credentials :
              /\ req'.body.username = c[2]
              /\ req'.body.password = c[3]
              /\ res'.token.id = c[1]
              /\ res'.cookie.id = c[1]
              /\ issued' = issued \cup {res'.token, res'.cookie}
       /\ Len(refreshTokens') > Len(refreshTokens) =>
            /\ req.route = "none" /\ req'.route = "login" /\ res'.status = 200
            /\ refreshTokens' = Append(refreshTokens, res'.cookie)
       /\ (req.route = "none" /\ req'.route = "logout") =>
            \A i \in 1..Len(refreshTokens') : refreshTokens'[i] # req'.cookie
       /\ (req.route = "none" /\ req'.route = "refresh" /\ res'.status = 200) =>
            /\ \E i \in 1..Len(refreshTokens) : refreshTokens[i] = req'.cookie
            /\ res'.token.id = req'.cookie.id
            /\ \E tok \in issued : byLogin(tok) /\ tok.id = res'.token.id]_vars

\* Two logins, a logout that presented the refresh token of one of them, and
\* then a refresh with the token that is still stored, answered 200.
C29_Witness ==
  /\ app = AppRefresh
  /\ req.route = "refresh"
  /\ res.status = 200
  /\ loggedOut # {}
  /\ req.cookie \notin loggedOut
  /\ Len(refreshTokens) = 1
  /\ refreshTokens[1] = req.cookie

\* C25: a worker never has more messages in flight (delivered and not yet
\* acknowledged) than its prefetch count; a message is pulled from the queue
\* only for a worker that is consuming the queue and has fewer messages in
\* flight than its prefetch count, and it is the head of the queue; with
\* prefetch 1 the only thing that can happen to a worker holding a message is
\* the acknowledgement of that message, so its next message comes after it.
C25_InFlightWithinPrefetch ==
  [][\A c \in Workers :
       /\ Len(wUnacked[c]) <= PrefetchCount
       /\ Len(wUnacked'[c]) <= PrefetchCount
       /\ Len(wUnacked'[c]) > Len(wUnacked[c]) =>
            /\ wPc[c] = "consuming"
            /\ Len(wUnacked[c]) < PrefetchCount
            /\ wQueue # <<>>
            /\ wUnacked'[c] = Append(wUnacked[c], Head(wQueue))
            /\ wQueue' = Tail(wQueue)
       /\ wQueue' # wQueue =>
            \/ wQueue' = Append(wQueue, messageId)
            \/ \E d \in Workers : Len(wUnacked'[d]) > Len(wUnacked[d])
       /\ (wUnacked[c] # <<>> /\ wUnacked'[c] # wUnacked[c]) =>
            /\ wUnacked'[c] = <<>>
            /\ wAcked'[c] = Append(wAcked[c], Head(wUnacked[c]))]_vars

\* Worker A, the only worker consuming, holds its second message after having
\* acknowledged its first, and the third message waits in the queue.
C25_Witness ==
  /\ wPc["A"] = "consuming"
  /\ wPc["B"] = "off"
  /\ wAcked["A"] = <<1>>
  /\ wUnacked["A"] = <<2>>
  /\ wQueue = <<3>>

====
